---- MODULE Spec2Model ----
(***************************************************************************)
(* Model of github.com/cmertens/snowflake (snowflake.go).                  *)
(*                                                                         *)
(* Two parts:                                                              *)
(*   - the generator: SnowflakeNode.Next() called by concurrent callers,   *)
(*     with the mutex, the sampled clock, the sequence counter and the     *)
(*     composition of the Identifier;                                      *)
(*   - the semantic codec: NewSemanticSnowflake / ToSnowflake, as pure     *)
(*     functions on 64-bit words.                                          *)
(*                                                                         *)
(* A Go int64 / uint64 is a word: the set of the positions 0..63 of its    *)
(* bits that are 1 (two's complement for int64).  All shifts, masks, ors,  *)
(* the remainder and the comparisons are computed bit by bit on words, so  *)
(* overflow and sign behave as in the Go build.                            *)
(***************************************************************************)
EXTENDS Integers, Sequences, FiniteSets, TLC

(***************************************************************************)
(* 64-bit words: the set of the positions of the bits that are 1           *)
(***************************************************************************)
Bits == 0..63

Zero == {}

MinusOne == Bits

\* the word of a small non-negative number (n < 2^31)
ToWord(n) == {i \in 0..30 : (n \div (2^i)) % 2 = 1}

\* the word whose 16-bit limbs are l3 (bits 48..63), l2, l1, l0 (bits 0..15)
WordOfLimbs(l3, l2, l1, l0) ==
    LET l == <<l0, l1, l2, l3>>
    IN  {i \in Bits : (l[(i \div 16) + 1] \div (2^(i % 16))) % 2 = 1}

\* the word with exactly bits lo..hi set
BitRange(lo, hi) == {i \in Bits : lo <= i /\ i <= hi}

\* Go: w << k (bits shifted out at the top are lost)
Shl(w, k) == {i \in Bits : i >= k /\ (i - k) \in w}

\* Go: w >> k on a uint64 (zero fill)
Shr(w, k) == {i \in Bits : (i + k) \in w}

\* Go: w >> k on an int64 (sign fill)
Sar(w, k) == {i \in Bits : IF i + k <= 63 THEN (i + k) \in w ELSE 63 \in w}

Or(a, b) == a \cup b

And(a, b) == a \cap b

Xor(a, b) == (a \ b) \cup (b \ a)

Not(a) == Bits \ a

\* the carry into bit i of a + b: some lower bit generates it and every bit between
\* passes it on
Carry(a, b, i) ==
    \E j \in 0..(i - 1) :
        /\ j \in a
        /\ j \in b
        /\ \A k \in (j + 1)..(i - 1) : k \in a \/ k \in b

\* Go: a + b on int64 (wraps modulo 2^64)
Add(a, b) == {i \in Bits : ((i \in a) # (i \in b)) # Carry(a, b, i)}

\* Go: -a on int64
Neg(a) == Add(Not(a), ToWord(1))

\* the sign of an int64
IsNeg(w) == 63 \in w

\* a < b as uint64
ULess(a, b) == \E i \in b \ a : \A j \in (i + 1)..63 : (j \in a) = (j \in b)

\* a < b as int64
SLess(a, b) == IF (63 \in a) # (63 \in b) THEN 63 \in a ELSE ULess(a, b)

\* a <= b as int64
SLeq(a, b) == a = b \/ SLess(a, b)

\* the value of bits lo..hi of w taken as a number (hi <= 29), by halves
RECURSIVE BitsValue(_, _, _)
BitsValue(w, lo, hi) ==
    IF lo = hi THEN (IF lo \in w THEN 2^lo ELSE 0)
    ELSE BitsValue(w, lo, (lo + hi) \div 2) + BitsValue(w, (lo + hi) \div 2 + 1, hi)

\* the number a word holds, for words below 2^30
WordToNat(w) == BitsValue(w, 0, 29)

\* 2^i modulo a small m, for i in 0..63
Pow2Mod(i, m) ==
    IF i <= 30 THEN (2^i) % m
    ELSE IF i <= 60 THEN (((2^30) % m) * ((2^(i - 30)) % m)) % m
    ELSE (((((2^30) % m) * ((2^30) % m)) % m) * ((2^(i - 60)) % m)) % m

\* bits lo..hi of the uint64 w, taken modulo a small m, by halves
RECURSIVE BitsRem(_, _, _, _)
BitsRem(w, m, lo, hi) ==
    IF lo = hi THEN (IF lo \in w THEN Pow2Mod(lo, m) ELSE 0)
    ELSE (BitsRem(w, m, lo, (lo + hi) \div 2)
          + BitsRem(w, m, (lo + hi) \div 2 + 1, hi)) % m

\* the uint64 w modulo a small m
URem(w, m) == BitsRem(w, m, 0, 63)

\* Go: w % m on int64, m > 0: the remainder takes the sign of the dividend
Rem(w, m) == IF IsNeg(w) THEN Neg(ToWord(URem(Neg(w), m))) ELSE ToWord(URem(w, m))

(***************************************************************************)
(* Constants of snowflake.go                                               *)
(***************************************************************************)
baseSeqIdBits == 12

baseNodeBits == 10

\* NewSnowflakeNode: seqStep: -1 ^ (-1 << baseSeqIdBits)
seqStep == Xor(MinusOne, Shl(MinusOne, baseSeqIdBits))

\* NewSnowflakeNode: timeStep: baseNodeBits + baseSeqIdBits
timeStep == baseNodeBits + baseSeqIdBits

\* NewSnowflakeNode: nodeStep: baseNodeBits
nodeStep == baseNodeBits

(***************************************************************************)
(* Bounds of the model                                                     *)
(***************************************************************************)
\* the clock (milliseconds since the epoch) takes the values 0..MaxClock
MaxClock == 2

\* calls made by a caller whose number of calls is limited
MaxCalls == 1

\* the first MaxObserved returned Identifiers are kept for comparison
MaxObserved == 1

\* node IDs the nodes are constructed with (the contract allows 0..1023)
NodeIds == {0, 1, 1023}

Nodes == {"n1", "n2"}

Callers == {"c1", "c2"}

Unlimited == 0 - 1

Free == "free"

VARIABLES
    clock,      \* the environment: milliseconds elapsed since the custom epoch
    nodeId,     \* nodeId[n]: SnowflakeNode.nodeId
    time,       \* time[n]: SnowflakeNode.time
    sequence,   \* sequence[n]: SnowflakeNode.sequence
    mutex,      \* mutex[n]: the caller holding SnowflakeNode.mutex, or Free
    node,       \* node[p]: the SnowflakeNode caller p calls Next() on
    todo,       \* todo[p]: calls p may still start (Unlimited: any number)
    pc,         \* pc[p]: "idle", "lock" (in Next, at mutex.Lock) or "spin"
    now,        \* now[p]: the local now of p's call
    last,       \* the most recent return of Next()
    prev,       \* the return before it
    watch,      \* how many of the first returns are kept in obs
    obs,        \* the first returns of Next(), in order
    src,        \* codec: the input
    stage,      \* codec: what has been applied to the input
    sem,        \* codec: a SemanticSnowflake
    flake,      \* codec: a Snowflake
    sem2        \* codec: the SemanticSnowflake decoded last

genVars == <<clock, nodeId, time, sequence, mutex, node, todo, pc, now, last, prev,
             watch, obs>>

codecVars == <<src, stage, sem, flake, sem2>>

vars == <<genVars, codecVars>>

(***************************************************************************)
(* The generator                                                           *)
(***************************************************************************)
\* Next(), lines 124-128: (now)<<timeStep | (nodeId << nodeStep) | (seq)
ComposeId(n, nid, s) == Or(Or(Shl(n, timeStep), Shl(nid, nodeStep)), s)

\* (s + 1) & self.seqStep for every value s the masked counter can hold, computed on
\* words once
MaskedSuccessor == [s \in 0..WordToNat(seqStep) |-> WordToNat(And(ToWord(s + 1), seqStep))]

\* Next(), line 111: (self.sequence + 1) & self.seqStep
NextSequence(s) == MaskedSuccessor[s]

\* a busy-wait that compares with < instead of <=
WaitingStrict(n, t) == n < t

\* Next(), line 113: the busy-wait goes on while now <= self.time
Waiting(n, t) == n <= t

\* time.Since(self.epoch).Nanoseconds() / 1000000
Sample == clock

\* a busy-wait that does not sample the clock again
ResampleStale(p) == now[p]

\* Next(), line 114: the busy-wait samples the clock again
Resample(p) == Sample

\* a return of Next(): the node, the call's locals now and seq when it returned,
\* whether it went through the busy-wait, and its rank among the returns (counted
\* up to MaxObserved + 1)
NoReturn == [node |-> "none", now |-> 0, seq |-> 0, spun |-> FALSE, n |-> 0]

\* Next(), lines 124-130: the Identifier the call r returned, composed from its
\* locals now and seq and the nodeId of its node
Returned(r) == ComposeId(ToWord(r.now), ToWord(nodeId[r.node]), ToWord(r.seq))

\* the clock advances (it never goes backward)
Tick ==
    /\ clock < MaxClock
    /\ clock' = clock + 1
    /\ UNCHANGED <<nodeId, time, sequence, mutex, node, todo, pc, now, last, prev,
                   watch, obs>>
    /\ UNCHANGED codecVars

\* caller p calls Next() on its node and arrives at self.mutex.Lock().  No call
\* starts once the modelled clock has reached its bound, so that every call runs
\* under a clock that can still advance.
Call(p) ==
    /\ pc[p] = "idle"
    /\ todo[p] # 0
    /\ clock < MaxClock
    /\ pc' = [pc EXCEPT ![p] = "lock"]
    /\ todo' = [todo EXCEPT ![p] = IF @ = Unlimited THEN @ ELSE @ - 1]
    /\ UNCHANGED <<clock, nodeId, time, sequence, mutex, node, now, last, prev,
                   watch, obs>>
    /\ UNCHANGED codecVars

\* Next(), lines 120-130: self.time = now; seq := self.sequence; Unlock; return
\* the Identifier composed from the locals now and seq and the immutable nodeId
\* (Returned).  Lines 124-130 touch no shared mutable state, so the return is
\* taken together with the unlock.
Finish(p, n, s, waited) ==
    LET g == node[p]
        r == [node |-> g, now |-> n, seq |-> s, spun |-> waited,
              n |-> IF last.n > MaxObserved THEN last.n ELSE last.n + 1]
    IN  /\ time' = [time EXCEPT ![g] = n]
        /\ sequence' = [sequence EXCEPT ![g] = s]
        /\ mutex' = [mutex EXCEPT ![g] = Free]
        /\ pc' = [pc EXCEPT ![p] = "idle"]
        /\ now' = [now EXCEPT ![p] = 0]
        /\ last' = r
        /\ prev' = last
        /\ obs' = IF Len(obs) < watch THEN Append(obs, r) ELSE obs
        /\ UNCHANGED <<clock, nodeId, node, todo, watch>>
        /\ UNCHANGED codecVars

\* Next(), lines 108-119: take the mutex, sample the clock, advance or reset the
\* sequence; on a wrap to 0 enter the busy-wait with the mutex held, otherwise go on
\* to lines 120-130.
Lock(p) ==
    LET g == node[p]
        n == Sample
        s == IF n = time[g] THEN NextSequence(sequence[g]) ELSE 0
    IN  /\ pc[p] = "lock"
        /\ mutex[g] = Free
        /\ IF n = time[g] /\ s = 0 /\ Waiting(n, time[g])
           THEN /\ mutex' = [mutex EXCEPT ![g] = p]
                /\ sequence' = [sequence EXCEPT ![g] = s]
                /\ now' = [now EXCEPT ![p] = n]
                /\ pc' = [pc EXCEPT ![p] = "spin"]
                /\ UNCHANGED <<clock, nodeId, time, node, todo, last, prev, watch, obs>>
                /\ UNCHANGED codecVars
           ELSE Finish(p, n, s, FALSE)

\* Next(), lines 113-115: one turn of the busy-wait: sample the clock again, leave
\* the loop when now has passed self.time and go on to lines 120-130.
Spin(p) ==
    LET g == node[p]
        n == Resample(p)
    IN  /\ pc[p] = "spin"
        /\ mutex[g] = p
        /\ IF Waiting(n, time[g])
           THEN /\ now' = [now EXCEPT ![p] = n]
                /\ UNCHANGED <<clock, nodeId, time, sequence, mutex, node, todo, pc,
                               last, prev, watch, obs>>
                /\ UNCHANGED codecVars
           ELSE Finish(p, n, sequence[g], TRUE)

NextGen == Tick \/ \E p \in Callers : Call(p) \/ Lock(p) \/ Spin(p)

(***************************************************************************)
(* Initial states: the nodes as NewSnowflakeNode leaves them (sequence 0,  *)
(* time 0, mutex free), no call started.                                   *)
(***************************************************************************)
NoInput == [kind |-> "none"]

NoSem == [ID |-> Zero, NodeID |-> Zero, TypeID |-> Zero, GlobalTypeID |-> Zero]

CodecIdle ==
    /\ src = NoInput
    /\ stage = "off"
    /\ sem = NoSem
    /\ flake = Zero
    /\ sem2 = NoSem

\* NewSnowflakeNode(shardId) for each node, shardId from ids; caller p uses node
\* nodeOf[p] and makes calls[p] calls; the first w returns are kept.
InitGen(ids, nodeOf, calls, w) ==
    /\ clock = 0
    /\ nodeId \in ids
    /\ time = [n \in Nodes |-> 0]
    /\ sequence = [n \in Nodes |-> 0]
    /\ mutex = [n \in Nodes |-> Free]
    /\ node = nodeOf
    /\ todo = calls
    /\ pc = [p \in Callers |-> "idle"]
    /\ now = [p \in Callers |-> 0]
    /\ last = NoReturn
    /\ prev = NoReturn
    /\ watch = w
    /\ obs = <<>>

SameIds == {[n \in Nodes |-> a] : a \in NodeIds}

DistinctIds == {f \in [Nodes -> NodeIds] : f["n1"] # f["n2"]}

OneNode == [p \in Callers |-> "n1"]

TwoNodes == [p \in Callers |-> IF p = "c1" THEN "n1" ELSE "n2"]

\* two concurrent callers of one node, the first returns kept
Init ==
    /\ InitGen(SameIds, OneNode, [p \in Callers |-> Unlimited], MaxObserved)
    /\ CodecIdle

Spec == Init /\ [][NextGen]_vars

\* one caller of one node: sequential calls
InitSeq ==
    /\ InitGen(SameIds, OneNode, [p \in Callers |-> IF p = "c1" THEN Unlimited ELSE 0], 0)
    /\ CodecIdle

SpecSeq == InitSeq /\ [][NextGen]_vars

\* two nodes with distinct node IDs, one caller each, the first returns kept
InitTwo ==
    /\ InitGen(DistinctIds, TwoNodes,
               [p \in Callers |-> IF p = "c1" THEN Unlimited ELSE MaxCalls], MaxObserved)
    /\ CodecIdle

SpecTwo == InitTwo /\ [][NextGen]_vars

\* the scheduling Next() relies on: the clock advances, a running caller keeps
\* running, and the mutex is granted to a caller that keeps asking for it
Fairness ==
    /\ WF_vars(Tick)
    /\ \A p \in Callers : SF_vars(Lock(p)) /\ WF_vars(Spin(p))

\* two concurrent callers of one node, under that scheduling
InitLive ==
    /\ InitGen(SameIds, OneNode, [p \in Callers |-> Unlimited], 0)
    /\ CodecIdle

SpecLive == InitLive /\ [][NextGen]_vars /\ Fairness

(***************************************************************************)
(* The semantic codec                                                      *)
(***************************************************************************)
\* (1 << k) - 1, as the code writes its masks
LowMask(k) == Add(Shl(ToWord(1), k), MinusOne)

\* a decoder that shifts the int64 (sign fill) instead of the uint64
NewSemanticSnowflakeSigned(f) ==
    [ID           |-> Sar(f, 23),
     NodeID       |-> Shr(Shl(f, 41), 51),
     TypeID       |-> And(f, LowMask(10)),
     GlobalTypeID |-> And(f, LowMask(23))]

\* NewSemanticSnowflake(flake): the shifts and masks are on uint64(flake)
NewSemanticSnowflake(f) ==
    [ID           |-> Shr(f, 23),
     NodeID       |-> Shr(Shl(f, 41), 51),
     TypeID       |-> And(f, LowMask(10)),
     GlobalTypeID |-> And(f, LowMask(23))]

\* SemanticSnowflake.GetNodeID: int64(s.NodeID % 8192)
GetNodeID(s) == Rem(s.NodeID, 8192)

\* SemanticSnowflake.GetTypeID: int64(s.TypeID % 1024)
GetTypeID(s) == Rem(s.TypeID, 1024)

\* an encoder that shifts the node ID by its width, 13, instead of 10
ToSnowflakeWide(s) == Or(Or(Shl(s.ID, 23), Shl(GetNodeID(s), 13)), GetTypeID(s))

\* SemanticSnowflake.ToSnowflake: s.ID << 23 | GetNodeID() << 10 | GetTypeID(), on int64
ToSnowflake(s) == Or(Or(Shl(s.ID, 23), Shl(GetNodeID(s), 10)), GetTypeID(s))

\* the values of the repository's test
TestId == WordOfLimbs(10148, 27059, 15488, 3701)   \* 2856524282194824821

TestObjectId == WordOfLimbs(0, 79, 18643, 26233)   \* 340524230265

\* raw Identifiers given to NewSemanticSnowflake: any int64
RawIds ==
    {Zero, ToWord(1), MinusOne, BitRange(63, 63), BitRange(0, 62), TestId,
     BitRange(10, 22), BitRange(23, 63), Neg(TestId),
     WordOfLimbs(43690, 43690, 43690, 43690), WordOfLimbs(21845, 21845, 21845, 21845)}

\* object IDs: 0, 1, the test's, 2^40 - 1, 2^40, 2^41 - 1
ObjectIds ==
    {Zero, ToWord(1), TestObjectId, BitRange(0, 39), BitRange(40, 40), BitRange(0, 40)}

\* NodeID fields: in range, at or above 8192, and negative
NodeValues ==
    {Zero, ToWord(50), ToWord(5461), ToWord(8191), ToWord(8192 + 50), ToWord(3 * 8192),
     BitRange(0, 62),
     Neg(ToWord(1)), Neg(ToWord(8192 + 50))}

\* TypeID fields: in range, at or above 1024, and negative
TypeValues ==
    {Zero, ToWord(100), ToWord(682), ToWord(1023), ToWord(1024 + 100), Neg(ToWord(1)),
     Neg(ToWord(1024 + 100))}

\* fields given to the classic composition: now in [0, 2^41), node ID in [0, 1024),
\* sequence in [0, 4096)
ClassicNows == {Zero, ToWord(1), BitRange(40, 40), BitRange(0, 40)}

ClassicSeqs == {Zero, ToWord(1), ToWord(1024), ToWord(4095)}

Inputs ==
    [kind : {"id"}, id : RawIds]
    \cup [kind : {"triple"}, ID : ObjectIds, NodeID : NodeValues, TypeID : TypeValues]
    \cup [kind : {"classic"}, now : ClassicNows, nid : {ToWord(a) : a \in NodeIds},
          seq : ClassicSeqs]

\* the codec is given an input; the nodes are constructed and not called
InitCodec ==
    /\ InitGen(SameIds, OneNode, [p \in Callers |-> 0], 0)
    /\ src \in Inputs
    /\ stage = "new"
    /\ sem = IF src.kind = "triple"
             THEN [ID |-> src.ID, NodeID |-> src.NodeID, TypeID |-> src.TypeID,
                   GlobalTypeID |-> Zero]
             ELSE NoSem
    /\ flake = IF src.kind = "id" THEN src.id ELSE Zero
    /\ sem2 = NoSem

\* s := NewSemanticSnowflake(flake): of the raw Identifier given, or of what
\* ToSnowflake returned
Decode ==
    /\ \/ /\ stage = "new"
          /\ src.kind = "id"
          /\ sem' = NewSemanticSnowflake(flake)
          /\ stage' = "decoded"
          /\ UNCHANGED sem2
       \/ /\ stage = "encoded"
          /\ sem2' = NewSemanticSnowflake(flake)
          /\ stage' = "roundtrip"
          /\ UNCHANGED sem
       \/ /\ stage = "reencoded"
          /\ sem2' = NewSemanticSnowflake(flake)
          /\ stage' = "redecoded"
          /\ UNCHANGED sem
    /\ UNCHANGED <<src, flake>>
    /\ UNCHANGED genVars

\* flake := s.ToSnowflake(): of the triple given, or of what NewSemanticSnowflake
\* returned
Encode ==
    /\ \/ /\ stage = "new"
          /\ src.kind = "triple"
          /\ stage' = "encoded"
       \/ /\ stage = "decoded"
          /\ stage' = "reencoded"
    /\ flake' = ToSnowflake(sem)
    /\ UNCHANGED <<src, sem, sem2>>
    /\ UNCHANGED genVars

\* the composition of Next(), lines 124-128, on given fields
Classic ==
    /\ stage = "new"
    /\ src.kind = "classic"
    /\ flake' = ComposeId(src.now, src.nid, src.seq)
    /\ stage' = "classic"
    /\ UNCHANGED <<src, sem, sem2>>
    /\ UNCHANGED genVars

NextCodec == Decode \/ Encode \/ Classic

SpecCodec == InitCodec /\ [][NextCodec]_vars

(***************************************************************************)
(* Properties of the generator                                             *)
(***************************************************************************)
\* the earlier returns that are kept: those of obs that came before the last one
Earlier == {i \in 1..Len(obs) : i < last.n}

\* the (time delta, sequence) pair of return a comes before that of return b
PairLess(a, b) == a.now < b.now \/ (a.now = b.now /\ a.seq < b.seq)

\* C1: uniqueness within one generator: no call of Next() returns the Identifier
\* that an earlier call on the same node returned (the earlier calls compared are
\* the first MaxObserved returns).
C1_UniqueIds ==
    \A i \in Earlier :
        obs[i].node = last.node => Returned(obs[i]) # Returned(last)

\* C2: monotonicity: with sequential calls on one node, every returned Identifier
\* is >= (as int64) the Identifier the previous call returned.
C2_Monotonic ==
    (prev.n > 0 /\ prev.node = last.node) => SLeq(Returned(prev), Returned(last))

\* C3: classic bit layout: the Identifier returned by Next() equals
\* (now << 22) | (nodeID << 12) | sequence, and the fields are recovered by
\* id >> 22, (id >> 12) & 1023 and id & 4095.
C3_ClassicLayout ==
    last.n > 0 =>
        LET id  == Returned(last)
            n   == ToWord(last.now)
            nid == ToWord(nodeId[last.node])
            sq  == ToWord(last.seq)
        IN  /\ id = Or(Or(Shl(n, 22), Shl(nid, 12)), sq)
            /\ Sar(id, 22) = n
            /\ And(Sar(id, 12), ToWord(1023)) = nid
            /\ And(id, ToWord(4095)) = sq

\* C4: uniqueness across nodes: two nodes constructed with distinct node IDs never
\* return the same Identifier (a return of one node is compared with the first
\* MaxObserved returns, when they are of the other node).
C4_UniqueAcrossNodes ==
    \A i \in Earlier :
        (obs[i].node # last.node /\ nodeId[obs[i].node] # nodeId[last.node])
            => Returned(obs[i]) # Returned(last)

\* C9: clock/sequence interlock: the sequence counter stays in 0..4095; the
\* (time delta, sequence) pair a call records is strictly greater, in the order of
\* pairs, than the pair the call before it on the same node recorded, and differs
\* from the pairs of the first returns, so no pair is recorded twice; a call whose
\* increment wrapped to 0 holds the mutex while it busy-waits with now <= self.time,
\* and when it has returned it has recorded sequence 0 at a time delta strictly
\* greater than the one recorded before it, where the sequence was 4095.
C9_Interlock ==
    /\ \A g \in Nodes : sequence[g] \in 0..4095
    /\ (prev.n > 0 /\ prev.node = last.node) => PairLess(prev, last)
    /\ \A i \in Earlier :
           obs[i].node = last.node => <<obs[i].now, obs[i].seq>> # <<last.now, last.seq>>
    /\ \A p \in Callers :
           pc[p] = "spin" =>
               /\ mutex[node[p]] = p
               /\ sequence[node[p]] = 0
               /\ now[p] <= time[node[p]]
    /\ last.spun =>
           /\ last.seq = 0
           /\ prev.n > 0 /\ prev.node = last.node
           /\ prev.seq = 4095
           /\ last.now > prev.now

\* a call that wrapped the sequence from 4095 to 0 has busy-waited and returned,
\* with the other caller inside Next() at the mutex
C9_Witness ==
    /\ last.spun
    /\ prev.seq = 4095
    /\ last.now = prev.now + 1
    /\ \E p \in Callers : pc[p] = "lock"

\* C10: termination: under the fair scheduling of SpecLive, every call of Next()
\* that has started returns.
C10_Terminates == \A p \in Callers : (pc[p] # "idle") ~> (pc[p] = "idle")

\* one caller busy-waits on an exhausted millisecond while the other is blocked
\* at the mutex
C10_Witness ==
    \E p, q \in Callers :
        /\ pc[p] = "spin"
        /\ pc[q] = "lock"
        /\ node[p] = node[q]
        /\ clock = time[node[p]]

(***************************************************************************)
(* Properties of the semantic codec                                        *)
(***************************************************************************)
\* the triple given is within range: objectID in [0, 2^41), NodeID in [0, 8192),
\* TypeID in [0, 1024)
InRange(t) ==
    /\ Shr(t.ID, 41) = Zero
    /\ Shr(t.NodeID, 13) = Zero
    /\ Shr(t.TypeID, 10) = Zero

\* the int64 w reduced modulo m into [0, m)
ModWord(w, m) ==
    IF IsNeg(w) THEN ToWord((m - URem(Neg(w), m)) % m) ELSE ToWord(URem(w, m))

\* C5: semantic round trip: for a triple within range, including objectID >= 2^40,
\* NewSemanticSnowflake(t.ToSnowflake()) has the ID, NodeID and TypeID of t.
C5_RoundTrip ==
    (stage = "roundtrip" /\ InRange(src)) =>
        /\ sem2.ID = src.ID
        /\ sem2.NodeID = src.NodeID
        /\ sem2.TypeID = src.TypeID

\* a triple within range with objectID >= 2^40 and non-zero NodeID and TypeID has
\* been encoded and decoded
C5_Witness ==
    /\ stage = "roundtrip"
    /\ InRange(src)
    /\ 40 \in src.ID
    /\ src.NodeID # Zero
    /\ src.TypeID # Zero

\* C6: semantic re-encode: for every int64 id, NewSemanticSnowflake(id).ToSnowflake()
\* is id bit for bit, and decoding the re-encoded value gives the ID, NodeID and
\* TypeID that decoding id gave.
C6_Reencode ==
    /\ stage \in {"reencoded", "redecoded"} => flake = src.id
    /\ stage = "redecoded" =>
           /\ sem2.ID = sem.ID
           /\ sem2.NodeID = sem.NodeID
           /\ sem2.TypeID = sem.TypeID

\* an id with the top bit set and non-zero node and type bits has been decoded,
\* re-encoded and decoded again
C6_Witness ==
    /\ stage = "redecoded"
    /\ IsNeg(src.id)
    /\ sem.NodeID # Zero
    /\ sem.TypeID # Zero

\* C7: modulo clamp on encode: for every objectID in [0, 2^41) and every int64
\* NodeID and TypeID, negative ones included, ToSnowflake() of the triple equals
\* ToSnowflake() of (objectID, NodeID mod 8192, TypeID mod 1024) with the reduced
\* values in [0, 8192) and [0, 1024), and the object-ID bits are those of objectID.
C7_ModuloClamp ==
    stage = "encoded" =>
        /\ flake = ToSnowflake([sem EXCEPT !.NodeID = ModWord(@, 8192),
                                           !.TypeID = ModWord(@, 1024)])
        /\ Shr(flake, 23) = src.ID

\* C8: Identifiers are never negative: the classic composition of Next() on a time
\* delta in [0, 2^41), a node ID in [0, 1024) and a sequence in [0, 4096), and
\* ToSnowflake() on a triple within range, return a value >= 0.
C8_NonNegative ==
    /\ stage = "classic" => ~IsNeg(flake)
    /\ (stage = "encoded" /\ InRange(src)) => ~IsNeg(flake)

====
